---- MODULE Spec2Model ----
(***************************************************************************)
(* Model of dark_side_of_the_time.py: CSV records are deserialized into    *)
(* Activities, windows of the activity list are selected relative to the   *)
(* last activity, and Markdown report sections are rendered from them.     *)
(*                                                                         *)
(* Strings.  A CSV field value is modelled as [pre, core, post]: a run of  *)
(* pre whitespace characters, an optional non-whitespace body (core is a   *)
(* sequence of length 0 or 1) and a run of post whitespace characters.     *)
(* The body of a year field is an integer, of a date field [b, d] (month   *)
(* name and day), of a time field [H, M], of an activity_type field the    *)
(* type code.  A datetime is the number of minutes since 2024-01-01 00:00  *)
(* (a Monday); everything the program parses has whole-minute resolution.  *)
(*                                                                         *)
(* Exceptions.  Every function that can raise returns [error, value];      *)
(* error = "" means the function returned value.                           *)
(***************************************************************************)
EXTENDS Integers, Sequences, FiniteSets, TLC

VARIABLES
    record,      \* the CSV record (dirty_values) handed to Activity.deserialize
    parsed,      \* the outcome of that call
    activities,  \* the list read_activities has built so far
    pc,          \* position of the run
    op,          \* the function last applied to activities
    selected,    \* outcome of a window selector
    aggregate,   \* outcome of get_total_duration and get_total_break_duration
    report       \* outcome of a report function

vars == <<record, parsed, activities, pc, op, selected, aggregate, report>>

\* Largest number of CSV data rows of one run.
MaxActivities == 3

----------------------------------------------------------------------------
(* Strings and calendar arithmetic                                         *)

Str(pre, core, post) == [pre |-> pre, core |-> core, post |-> post]

\* str.strip(): leading and trailing whitespace removed.
strip(s) == [pre |-> 0, core |-> s.core, post |-> 0]

\* Truthiness of a str: it has at least one character.
truthy(s) == s.pre + Len(s.core) + s.post > 0

MonthNames == <<"Jan", "Feb", "Mar", "Apr", "May", "Jun",
                "Jul", "Aug", "Sep", "Oct", "Nov", "Dec">>

\* Days of the year before the first of each month (2024 is a leap year).
DaysBeforeMonth == <<0, 31, 60, 91, 121, 152, 182, 213, 244, 274, 305, 335>>

MonthIndex(b) == CHOOSE i \in 1..12 : MonthNames[i] = b

\* Days from 2024-01-01 to the first of January of year y (2024..2027).
DaysBeforeYear(y) == (y - 2024) * 365 + (IF y > 2024 THEN 1 ELSE 0)

\* datetime.strptime(f"{year} {date} {time}", "%Y %b %d %H:%M"): the three
\* parts must each hold a body; whitespace around them is matched by the
\* blanks of the format and by strip().
strptime(year_str, date_str, time_str) ==
    IF year_str.core = <<>> \/ date_str.core = <<>> \/ time_str.core = <<>>
    THEN [error |-> "ValueError", value |-> 0]
    ELSE LET y == year_str.core[1]
             d == date_str.core[1]
             t == time_str.core[1]
         IN [error |-> "",
             value |-> (DaysBeforeYear(y) + DaysBeforeMonth[MonthIndex(d.b)]
                            + d.d - 1) * 1440 + t.H * 60 + t.M]

\* datetime.date(): the calendar day, as a day number.
date(t) == t \div 1440

\* datetime.weekday(): Monday is 0, Sunday is 6.
weekday(t) == date(t) % 7

\* timedelta(days=n) in minutes.
timedelta_days(n) == n * 1440

\* int(x / 60) for a timedelta of x seconds: truncation toward zero.
int_div(x, n) == IF x >= 0 THEN x \div n ELSE -((-x) \div n)

\* f"{x / 60.0:.2f}" for an integer number of minutes, in hundredths.  The
\* fraction of 100 x / 60 is 0, 1/3 or 2/3, so rounding is to the nearest.
format_hours(minutes) == (10 * minutes + 3) \div 6

\* f"{a / b:.2f}" for integers a >= 0, b > 0, in hundredths (round half even
\* on an exact tie).
format_ratio(a, b) ==
    LET q == (100 * a) \div b
        r == (100 * a) % b
    IN IF 2 * r > b \/ (2 * r = b /\ q % 2 = 1) THEN q + 1 ELSE q

\* strftime("%b %d") and strftime("%H:%M") of a datetime in 2024, as numbers.
strftime_date(t) ==
    LET doy == date(t) % 366
        m == CHOOSE i \in 1..12 :
                 /\ DaysBeforeMonth[i] <= doy
                 /\ (i = 12 \/ doy < DaysBeforeMonth[i + 1])
    IN <<m, doy - DaysBeforeMonth[m] + 1>>

strftime_time(t) == <<(t % 1440) \div 60, t % 60>>

----------------------------------------------------------------------------
(* Activity.deserialize                                                    *)

\* The schema file's text: one type code per line.
schema == <<"work", "rest">>

\* `activity_type in schema` on str: substring containment.  The empty
\* string is a substring of every string.
in_schema(activity_type, schema_text) ==
    \/ activity_type = ""
    \/ \E i \in 1..Len(schema_text) : schema_text[i] = activity_type

\* A dict of the CSV reader: a function from keys to values.  A key is
\* [pre, name]: the header cell with pre leading blanks.
has_key(values, name) == \E k \in DOMAIN values : k.name = name

get(values, name) == values[CHOOSE k \in DOMAIN values : k.name = name]

required_fields == <<"year", "date", "time_start", "activity_type">>

\* Activity.validate_csv: keys are stripped, values are NOT; every required
\* field must be present and truthy.
validate_csv(dirty_values) ==
    IF \A i \in 1..Len(required_fields) :
           /\ has_key(dirty_values, required_fields[i])
           /\ truthy(get(dirty_values, required_fields[i]))
    THEN "" ELSE "AssertionError"

\* The text of a stripped activity_type value.
text(s) == IF s.core = <<>> THEN "" ELSE s.core[1]

Activity(start, end, activity_type) ==
    [start |-> start, end |-> end, activity_type |-> activity_type]

NoActivity == Activity(0, 0, "")

deserialize(dirty_values, schema_text) ==
    IF validate_csv(dirty_values) # ""
    THEN [error |-> "AssertionError", value |-> NoActivity]
    ELSE
    LET activity_type == text(strip(get(dirty_values, "activity_type")))
    IN
    IF ~in_schema(activity_type, schema_text)
    THEN [error |-> "ValueError", value |-> NoActivity]
    ELSE IF ~has_key(dirty_values, "time_end")
    THEN [error |-> "KeyError", value |-> NoActivity]
    ELSE
    LET year_str == strip(get(dirty_values, "year"))
        date_str == strip(get(dirty_values, "date"))
        time_start == strip(get(dirty_values, "time_start"))
        time_end0 == strip(get(dirty_values, "time_end"))
        time_end == IF ~truthy(time_end0) THEN time_start ELSE time_end0
        start == strptime(year_str, date_str, time_start)
        end == strptime(year_str, date_str, time_end)
    IN
    IF start.error # "" THEN [error |-> start.error, value |-> NoActivity]
    ELSE IF end.error # "" THEN [error |-> end.error, value |-> NoActivity]
    ELSE [error |-> "", value |-> Activity(start.value, end.value, activity_type)]

----------------------------------------------------------------------------
(* Durations                                                               *)

Ok(v) == [error |-> "", value |-> v]

Raise(e, v) == [error |-> e, value |-> v]

\* timedelta.total_seconds() of the difference of two datetimes.
total_seconds(later, earlier) == (later - earlier) * 60

\* Faulty variant: the break is computed but its sign is never asserted.
get_break_duration_unasserted(self, previous) ==
    Ok(int_div(total_seconds(self.start, previous.end), 60))

\* Activity.get_break_duration_in_minutes
get_break_duration_in_minutes(self, previous) ==
    LET break_duration == int_div(total_seconds(self.start, previous.end), 60)
    IN IF break_duration >= 0 THEN Ok(break_duration)
       ELSE Raise("AssertionError", 0)

\* Activity.get_duration_in_minutes
get_duration_in_minutes(self) ==
    LET duration == int_div(total_seconds(self.end, self.start), 60)
    IN IF duration >= 0 THEN Ok(duration) ELSE Raise("AssertionError", 0)

\* sum(x.get_duration_in_minutes() for x in activities), left to right.
RECURSIVE sum_durations(_, _, _)
sum_durations(xs, i, acc) ==
    IF i > Len(xs) THEN Ok(acc)
    ELSE LET d == get_duration_in_minutes(xs[i])
         IN IF d.error # "" THEN d ELSE sum_durations(xs, i + 1, acc + d.value)

get_total_duration(xs) == sum_durations(xs, 1, 0)

\* The loop of get_total_break_duration over activities[1:]; i is the
\* 1-based position of `activity`.
RECURSIVE sum_breaks(_, _, _)
sum_breaks(xs, i, total_break_duration) ==
    IF i > Len(xs) THEN Ok(total_break_duration)
    ELSE LET activity == xs[i]
             previous == xs[i - 1]
         IN IF date(activity.start) = date(previous.end)
            THEN LET b == get_break_duration_in_minutes(activity, previous)
                 IN IF b.error # "" THEN b
                    ELSE sum_breaks(xs, i + 1, total_break_duration + b.value)
            ELSE sum_breaks(xs, i + 1, total_break_duration)

\* Faulty variant: the loop starts one activity too late.
get_total_break_duration_late(xs) == sum_breaks(xs, 3, 0)

get_total_break_duration(xs) == sum_breaks(xs, 2, 0)

----------------------------------------------------------------------------
(* Window selection                                                        *)

Last(xs) == xs[Len(xs)]

get_daily_activities(xs) ==
    IF xs = <<>> THEN Raise("IndexError", <<>>)
    ELSE LET last_date == date(Last(xs).start)
         IN Ok(SelectSeq(xs, LAMBDA x : date(x.start) = last_date))

get_date_at_midnight(t) == date(t) * 1440

\* Faulty variant: the weekday is taken as if Sunday were 0.
get_days_since_sunday_monday0(t) == weekday(t) % 7

get_days_since_sunday(t) == (weekday(t) + 1) % 7

get_sunday_before(t) ==
    get_date_at_midnight(t - timedelta_days(get_days_since_sunday(t)))

get_last_week_activities(xs) ==
    IF xs = <<>> THEN Raise("IndexError", <<>>)
    ELSE LET sunday == get_sunday_before(Last(xs).start)
             previous_sunday == sunday - timedelta_days(7)
         IN Ok(SelectSeq(xs, LAMBDA x : previous_sunday <= x.start
                                         /\ x.start < sunday))

\* Faulty variant: the week's own Sunday midnight is excluded.
get_this_week_activities_strict(xs) ==
    IF xs = <<>> THEN Raise("IndexError", <<>>)
    ELSE LET sunday == get_sunday_before(Last(xs).start)
         IN Ok(SelectSeq(xs, LAMBDA x : sunday < x.start))

get_this_week_activities(xs) ==
    IF xs = <<>> THEN Raise("IndexError", <<>>)
    ELSE LET sunday == get_sunday_before(Last(xs).start)
         IN Ok(SelectSeq(xs, LAMBDA x : sunday <= x.start))

----------------------------------------------------------------------------
(* Report rendering                                                        *)
(* A rendered str is the sequence of its lines; "\n".join is the           *)
(* concatenation of such sequences.  A line is [kind, label, nums]: the    *)
(* fixed text of the line is named by kind, label is the activity type or  *)
(* heading it shows and nums are the numbers it shows.  The empty string   *)
(* is the single line EmptyLine.                                           *)

Line(kind, label, nums) == [kind |-> kind, label |-> label, nums |-> nums]

EmptyLine == Line("empty", "", <<>>)

EmptyString == <<EmptyLine>>

RECURSIVE join(_)
join(texts) == IF texts = <<>> THEN <<>> ELSE Head(texts) \o join(Tail(texts))

\* Faulty variant: the per-type total is assigned instead of added to.
add_total_assign(activity_totals, activity_type, duration) ==
    IF \E i \in 1..Len(activity_totals) :
           activity_totals[i].activity_type = activity_type
    THEN [i \in 1..Len(activity_totals) |->
             IF activity_totals[i].activity_type = activity_type
             THEN [activity_totals[i] EXCEPT !.duration = duration]
             ELSE activity_totals[i]]
    ELSE Append(activity_totals,
                [activity_type |-> activity_type, duration |-> duration])

\* activity_totals[activity.activity_type] += duration on a dict that keeps
\* insertion order: a sequence of [activity_type, duration] items.
add_total(activity_totals, activity_type, duration) ==
    IF \E i \in 1..Len(activity_totals) :
           activity_totals[i].activity_type = activity_type
    THEN [i \in 1..Len(activity_totals) |->
             IF activity_totals[i].activity_type = activity_type
             THEN [activity_totals[i] EXCEPT !.duration = @ + duration]
             ELSE activity_totals[i]]
    ELSE Append(activity_totals,
                [activity_type |-> activity_type, duration |-> duration])

\* The accumulation loop of create_activity_duration_report; value is
\* [activity_totals, total_duration].
RECURSIVE accumulate(_, _, _, _)
accumulate(xs, i, activity_totals, total_duration) ==
    IF i > Len(xs)
    THEN Ok([activity_totals |-> activity_totals,
             total_duration |-> total_duration])
    ELSE LET d == get_duration_in_minutes(xs[i])
         IN IF d.error # ""
            THEN Raise(d.error, [activity_totals |-> <<>>, total_duration |-> 0])
            ELSE accumulate(xs, i + 1,
                            add_total(activity_totals, xs[i].activity_type,
                                      d.value),
                            total_duration + d.value)

\* Faulty variant: an ascending sort that is then reversed, which reverses ties.
insert_descending_unstable(sorted_items, item) ==
    LET n == Cardinality({i \in 1..Len(sorted_items) :
                              sorted_items[i].duration > item.duration})
    IN SubSeq(sorted_items, 1, n) \o <<item>>
           \o SubSeq(sorted_items, n + 1, Len(sorted_items))

\* One step of a stable descending sort: item goes after every item whose
\* key is at least its own.
insert_descending(sorted_items, item) ==
    LET n == Cardinality({i \in 1..Len(sorted_items) :
                              sorted_items[i].duration >= item.duration})
    IN SubSeq(sorted_items, 1, n) \o <<item>>
           \o SubSeq(sorted_items, n + 1, Len(sorted_items))

\* sorted(items, key=lambda x: x[1], reverse=True): stable, descending.
RECURSIVE sorted_reverse(_)
sorted_reverse(items) ==
    IF items = <<>> THEN <<>>
    ELSE insert_descending(sorted_reverse(SubSeq(items, 1, Len(items) - 1)),
                           items[Len(items)])

\* The row loop of create_activity_duration_report: duration / total_duration
\* divides by zero in the first row when total_duration is 0.
RECURSIVE duration_rows(_, _, _)
duration_rows(items, i, total_duration) ==
    IF i > Len(items) THEN Ok(<<>>)
    ELSE IF total_duration = 0 THEN Raise("ZeroDivisionError", <<>>)
    ELSE LET rest == duration_rows(items, i + 1, total_duration)
         IN IF rest.error # "" THEN rest
            ELSE Ok(<<Line("type_row", items[i].activity_type,
                           <<format_hours(items[i].duration),
                             format_ratio(items[i].duration, total_duration)>>)>>
                    \o rest.value)

create_activity_duration_report(xs) ==
    IF xs = <<>> THEN Ok(EmptyString)
    ELSE LET acc == accumulate(xs, 1, <<>>, 0)
         IN IF acc.error # "" THEN Raise(acc.error, <<>>)
            ELSE LET rows == duration_rows(
                                 sorted_reverse(acc.value.activity_totals), 1,
                                 acc.value.total_duration)
                 IN IF rows.error # "" THEN rows
                    ELSE Ok(<<Line("type_header", "", <<>>),
                              Line("type_rule", "", <<>>)>> \o rows.value)

\* The two footer lines shared by every section.
footer(total_duration, total_break_duration) ==
    <<Line("total_duration", "", <<format_hours(total_duration)>>),
      Line("total_break_duration", "", <<format_hours(total_break_duration)>>)>>

\* The row loop of create_daily_activity_report.
RECURSIVE daily_rows(_, _)
daily_rows(today_activities, i) ==
    IF i > Len(today_activities) THEN Ok(<<>>)
    ELSE LET activity == today_activities[i]
             duration == get_duration_in_minutes(activity)
             break_duration ==
                 IF i = 1 THEN Ok(0)
                 ELSE get_break_duration_in_minutes(activity,
                                                    today_activities[i - 1])
         IN IF duration.error # "" THEN Raise(duration.error, <<>>)
            ELSE IF break_duration.error # ""
            THEN Raise(break_duration.error, <<>>)
            ELSE LET rest == daily_rows(today_activities, i + 1)
                 IN IF rest.error # "" THEN rest
                    ELSE Ok(<<Line("activity_row", activity.activity_type,
                                   strftime_time(activity.start)
                                       \o strftime_time(activity.end)
                                       \o <<duration.value,
                                            break_duration.value>>)>>
                            \o rest.value)

create_daily_activity_report(xs) ==
    IF xs = <<>> THEN Ok(EmptyString)
    ELSE
    LET last_start == Last(xs).start
        today_activities == get_daily_activities(xs).value
        rows == daily_rows(today_activities, 1)
        total_duration == get_total_duration(today_activities)
        total_break_duration == get_total_break_duration(today_activities)
    IN
    IF rows.error # "" THEN rows
    ELSE IF total_duration.error # "" THEN Raise(total_duration.error, <<>>)
    ELSE IF total_break_duration.error # ""
    THEN Raise(total_break_duration.error, <<>>)
    ELSE Ok(join(<<
             <<Line("heading", "#", strftime_date(last_start))>>,
             EmptyString,
             <<Line("activity_header", "", <<>>)>>,
             <<Line("activity_rule", "", <<>>)>>,
             rows.value,
             EmptyString,
             footer(total_duration.value, total_break_duration.value)>>))

\* The body shared by the Total, Last Week and This Week sections: the
\* totals are computed first, then the list with the breakdown table.
section(title, subset) ==
    LET total_duration == get_total_duration(subset)
        total_break_duration == get_total_break_duration(subset)
        table == create_activity_duration_report(subset)
    IN
    IF total_duration.error # "" THEN Raise(total_duration.error, <<>>)
    ELSE IF total_break_duration.error # ""
    THEN Raise(total_break_duration.error, <<>>)
    ELSE IF table.error # "" THEN table
    ELSE Ok(join(<<
             <<Line("heading", title, <<>>)>>,
             EmptyString,
             table.value,
             EmptyString,
             footer(total_duration.value, total_break_duration.value)>>))

create_previous_week_activity_report(xs) ==
    IF xs = <<>> THEN Ok(EmptyString)
    ELSE section("# Last Week", get_last_week_activities(xs).value)

create_total_activity_report(xs) ==
    IF xs = <<>> THEN Ok(EmptyString)
    ELSE section("# Total", xs)

create_weekly_activity_report(xs) ==
    IF xs = <<>> THEN Ok(EmptyString)
    ELSE section("# This Week", get_this_week_activities(xs).value)

----------------------------------------------------------------------------
(* Inputs                                                                  *)

FieldNames == {"year", "date", "time_start", "time_end", "activity_type"}

\* A cell of a CSV row: whether the column exists, the blanks before its
\* header, and its value.
Cell(key_pre, value) == [present |-> TRUE, key_pre |-> key_pre, value |-> value]

Absent == [present |-> FALSE, key_pre |-> 0, value |-> Str(0, <<>>, 0)]

\* The dict csv.DictReader yields for a row of cells.
Row(cells) ==
    LET keys == {[pre |-> cells[n].key_pre, name |-> n] :
                     n \in {m \in FieldNames : cells[m].present}}
    IN [k \in keys |-> cells[k.name].value]

Cells(year, date_, time_start, time_end, activity_type) ==
    [year |-> year, date |-> date_, time_start |-> time_start,
     time_end |-> time_end, activity_type |-> activity_type]

Plain(body) == Cell(0, Str(0, <<body>>, 0))

Blank == Cell(0, Str(0, <<>>, 0))

Spaces == Cell(0, Str(2, <<>>, 0))

Day(b, d) == [b |-> b, d |-> d]

Time(H, M) == [H |-> H, M |-> M]

\* Records for Activity.deserialize: every field absent, empty, blank,
\* plain or padded; one padded header.
RichYears == {Absent, Blank, Spaces, Plain(2024), Cell(0, Str(1, <<2024>>, 1))}

RichDates == {Absent, Blank, Spaces, Plain(Day("Jan", 7)),
              Cell(0, Str(1, <<Day("Feb", 1)>>, 0))}

RichStarts == {Absent, Blank, Spaces, Plain(Time(9, 0)),
               Cell(0, Str(0, <<Time(10, 30)>>, 1))}

RichEnds == {Absent, Blank, Spaces, Plain(Time(11, 0))}

RichTypes == {Absent, Blank, Spaces, Plain("work"), Plain("play"),
              Cell(0, Str(1, <<"rest">>, 1)), Cell(1, Str(0, <<"work">>, 0))}

RichRecords ==
    {Row(Cells(y, d, s, e, t)) :
        y \in RichYears, d \in RichDates, s \in RichStarts, e \in RichEnds,
        t \in RichTypes}

\* Rows of a data file for the reports: two adjacent days on either side of
\* a week boundary (Sat Jan 13, Sun Jan 14), both types of the schema, and
\* four spans: no time_end, an hour, three quarters of an hour after a
\* quarter's break, and an end before its start.
ReportSpans ==
    {[s |-> Time(9, 0), e |-> Blank],
     [s |-> Time(9, 0), e |-> Plain(Time(10, 0))],
     [s |-> Time(10, 15), e |-> Plain(Time(11, 0))],
     [s |-> Time(10, 0), e |-> Plain(Time(9, 0))]}

ReportRows ==
    {Row(Cells(Plain(2024), Plain(d), Plain(x.s), x.e, Plain(t))) :
        d \in {Day("Jan", 13), Day("Jan", 14)},
        x \in ReportSpans,
        t \in {"work", "rest"}}

\* Rows of a data file for the window selectors: days of three successive
\* weeks, at midnight and later in the day.
WindowRows ==
    {Row(Cells(Plain(2024), Plain(Day("Jan", d)), Plain(s), Blank,
               Plain("work"))) :
        d \in {6, 7, 13, 14, 17}, s \in {Time(0, 0), Time(9, 0)}}

\* A row whose activity type is not in the schema.
BadRow ==
    Row(Cells(Plain(2024), Plain(Day("Jan", 14)), Plain(Time(9, 0)), Blank,
              Plain("play")))

----------------------------------------------------------------------------
(* The run                                                                 *)

NoTotals == [total_duration |-> 0, total_break_duration |-> 0]

Fresh ==
    /\ parsed = Ok(NoActivity)
    /\ activities = <<>>
    /\ op = "none"
    /\ selected = Ok(<<>>)
    /\ aggregate = Ok(NoTotals)
    /\ report = Ok(<<>>)

\* Activity.deserialize applied to one record.
InitParse == record \in RichRecords /\ pc = "start" /\ Fresh

Deserialize ==
    /\ pc = "start"
    /\ parsed' = deserialize(record, schema)
    /\ pc' = "parsed"
    /\ UNCHANGED <<record, activities, op, selected, aggregate, report>>

NextParse == Deserialize

SpecParse == InitParse /\ [][NextParse]_vars

\* read_activities: one step of the list comprehension over the rows of the
\* data file.  An exception of deserialize ends the run.
Init == record = BadRow /\ pc = "reading" /\ Fresh

ReadRow(rows) ==
    /\ pc = "reading"
    /\ Len(activities) < MaxActivities
    /\ \E x \in rows :
          LET d == deserialize(x, schema)
          IN /\ record' = x
             /\ IF d.error = ""
                THEN /\ activities' = Append(activities, d.value)
                     /\ UNCHANGED <<parsed, pc>>
                ELSE /\ parsed' = d
                     /\ pc' = "raised"
                     /\ UNCHANGED activities
    /\ UNCHANGED <<op, selected, aggregate, report>>

\* The reader is exhausted and read_activities returns the list.
EndOfFile ==
    /\ pc = "reading"
    /\ pc' = "loaded"
    /\ UNCHANGED <<record, parsed, activities, op, selected, aggregate, report>>

Select(name, outcome) ==
    /\ pc = "loaded"
    /\ pc' = "done"
    /\ op' = name
    /\ selected' = outcome
    /\ UNCHANGED <<record, parsed, activities, aggregate, report>>

GetDailyActivities ==
    Select("get_daily_activities", get_daily_activities(activities))

GetLastWeekActivities ==
    Select("get_last_week_activities", get_last_week_activities(activities))

GetThisWeekActivities ==
    Select("get_this_week_activities", get_this_week_activities(activities))

\* get_total_duration, then get_total_break_duration, as every section
\* calls them.
totals(xs) ==
    LET total_duration == get_total_duration(xs)
        total_break_duration == get_total_break_duration(xs)
    IN IF total_duration.error # "" THEN Raise(total_duration.error, NoTotals)
       ELSE IF total_break_duration.error # ""
       THEN Raise(total_break_duration.error, NoTotals)
       ELSE Ok([total_duration |-> total_duration.value,
                total_break_duration |-> total_break_duration.value])

Aggregate ==
    /\ pc = "loaded"
    /\ pc' = "done"
    /\ op' = "aggregate"
    /\ aggregate' = totals(activities)
    /\ UNCHANGED <<record, parsed, activities, selected, report>>

Render(name, outcome) ==
    /\ pc = "loaded"
    /\ pc' = "done"
    /\ op' = name
    /\ report' = outcome
    /\ UNCHANGED <<record, parsed, activities, selected, aggregate>>

CreateActivityDurationReport ==
    Render("create_activity_duration_report",
           create_activity_duration_report(activities))

CreateDailyActivityReport ==
    Render("create_daily_activity_report",
           create_daily_activity_report(activities))

CreatePreviousWeekActivityReport ==
    Render("create_previous_week_activity_report",
           create_previous_week_activity_report(activities))

CreateTotalActivityReport ==
    Render("create_total_activity_report",
           create_total_activity_report(activities))

CreateWeeklyActivityReport ==
    Render("create_weekly_activity_report",
           create_weekly_activity_report(activities))

ReadReportRow == ReadRow(ReportRows \cup {BadRow})

Next ==
    \/ ReadReportRow
    \/ EndOfFile
    \/ Aggregate
    \/ CreateActivityDurationReport
    \/ CreateDailyActivityReport
    \/ CreatePreviousWeekActivityReport
    \/ CreateTotalActivityReport
    \/ CreateWeeklyActivityReport

Spec == Init /\ [][Next]_vars

ReadWindowRow == ReadRow(WindowRows)

NextWindow ==
    \/ ReadWindowRow
    \/ EndOfFile
    \/ GetDailyActivities
    \/ GetLastWeekActivities
    \/ GetThisWeekActivities

SpecWindow == Init /\ [][NextWindow]_vars

----------------------------------------------------------------------------
(* Properties                                                              *)

Indices(xs) == 1..Len(xs)

\* The sum of a sequence of integers.
RECURSIVE SumSeq(_)
SumSeq(ns) == IF ns = <<>> THEN 0 ELSE Head(ns) + SumSeq(Tail(ns))

Minutes(a) == a.end - a.start

\* A required field of the record is absent, or empty once its surrounding
\* whitespace is removed.
RequiredFieldMissing ==
    \E n \in {"year", "date", "time_start", "activity_type"} :
        \/ \A k \in DOMAIN record : k.name # n
        \/ \E k \in DOMAIN record :
               k.name = n /\ record[k].core = <<>>

\* C1: Activity.deserialize fails for every record in which a required field
\* (year, date, time_start, activity_type) is absent or empty after trimming
\* whitespace; such a record never yields an Activity.
C1_RequiredFieldsValidated ==
    (pc = "parsed" /\ RequiredFieldMissing) => parsed.error # ""

\* C2: for every non-empty activity subset whose grand total duration is zero
\* minutes, create_activity_duration_report does not raise a division by
\* zero.
C2_ZeroTotalGuarded ==
    (/\ op = "create_activity_duration_report"
     /\ activities # <<>>
     /\ \A i \in Indices(activities) : Minutes(activities[i]) = 0)
        => report.error = ""

SomeNegativeDuration ==
    \E i \in Indices(activities) : activities[i].end < activities[i].start

SomeOverlap ==
    \E i \in 2..Len(activities) :
        activities[i].start < activities[i - 1].end

SomeSameDayOverlap ==
    \E i \in 2..Len(activities) :
        /\ activities[i].start < activities[i - 1].end
        /\ activities[i].start \div 1440 = activities[i - 1].end \div 1440

\* C3 as stated: aggregation is rejected with an assertion failure whenever
\* some activity has end < start or some consecutive pair has
\* start[i] < end[i-1], also when the pair falls on different calendar days.
C3_OutOfOrderRejected ==
    (op = "aggregate" /\ (SomeNegativeDuration \/ SomeOverlap))
        => aggregate.error = "AssertionError"

\* C3 amended: aggregation is rejected with an assertion failure whenever
\* some activity has end < start, or some consecutive pair has
\* start[i] < end[i-1] with start[i] on the calendar day of end[i-1].
C3_SameDayOutOfOrderRejected ==
    (op = "aggregate" /\ (SomeNegativeDuration \/ SomeSameDayOverlap))
        => aggregate.error = "AssertionError"

C3_Witness ==
    /\ op = "aggregate"
    /\ ~SomeNegativeDuration
    /\ SomeSameDayOverlap
    /\ aggregate.error = "AssertionError"

Selectors ==
    {"get_daily_activities", "get_last_week_activities",
     "get_this_week_activities"}

\* The selector named by op applied to xs.
Reselect(xs) ==
    CASE op = "get_daily_activities" -> get_daily_activities(xs)
      [] op = "get_last_week_activities" -> get_last_week_activities(xs)
      [] op = "get_this_week_activities" -> get_this_week_activities(xs)

\* C4 as stated: for each of the three selectors, applying the selector to
\* its own result yields the same subset as applying it once.
C4_SelectionIdempotent ==
    op \in Selectors => Reselect(selected.value).value = selected.value

\* C4 amended: for get_daily_activities and get_this_week_activities,
\* applying the selector to its own result has the same outcome as applying
\* it once: the same subset, and on an empty sequence the same IndexError.
C4_DailyAndThisWeekIdempotent ==
    op \in {"get_daily_activities", "get_this_week_activities"} =>
        IF selected.error # "" THEN activities = <<>>
        ELSE Reselect(selected.value) = selected

C4_Witness ==
    /\ op = "get_this_week_activities"
    /\ selected.error = ""
    /\ Len(selected.value) = 2
    /\ Len(activities) = 3
    /\ selected.value[1].start = get_sunday_before(Last(activities).start)

\* The Sunday at 00:00 on or before t, found by stepping back day by day.
SundayOnOrBefore(t) ==
    LET midnight == t - (t % 1440)
    IN CHOOSE s \in {midnight - k * 1440 : k \in 0..6} : (s \div 1440) % 7 = 6

InThisWeek(x, S) == x.start >= S

InLastWeek(x, S) == S - 7 * 1440 <= x.start /\ x.start < S

InEarlierWeeks(x, S) == x.start < S - 7 * 1440

Range(xs) == {xs[i] : i \in Indices(xs)}

\* C5: for a non-empty sequence, with S the Sunday 00:00 not later than the
\* last activity's start and less than 7 days before it,
\* get_this_week_activities returns the activities with start >= S,
\* get_last_week_activities those with S - 7 days <= start < S, the two are
\* disjoint, and every activity is in exactly one of this week, last week
\* and earlier weeks (start < S - 7 days).
C5_WeeksPartition ==
    (op \in {"get_this_week_activities", "get_last_week_activities"}
        /\ activities # <<>>) =>
    LET S == get_sunday_before(Last(activities).start)
        this_week == get_this_week_activities(activities)
        last_week == get_last_week_activities(activities)
    IN /\ S = SundayOnOrBefore(Last(activities).start)
       /\ S <= Last(activities).start
       /\ Last(activities).start < S + 7 * 1440
       /\ selected = IF op = "get_this_week_activities"
                     THEN this_week ELSE last_week
       /\ this_week = Ok(SelectSeq(activities, LAMBDA x : InThisWeek(x, S)))
       /\ last_week = Ok(SelectSeq(activities, LAMBDA x : InLastWeek(x, S)))
       /\ Range(this_week.value) \cap Range(last_week.value) = {}
       /\ \A i \in Indices(activities) :
              LET x == activities[i]
                  a == x \in Range(this_week.value)
                  b == x \in Range(last_week.value)
                  c == InEarlierWeeks(x, S)
              IN (a \/ b \/ c) /\ ~(a /\ b) /\ ~(a /\ c) /\ ~(b /\ c)

C5_Witness ==
    /\ op = "get_last_week_activities"
    /\ Len(activities) = 3
    /\ Len(selected.value) = 1
    /\ Len(get_this_week_activities(activities).value) = 1
    /\ selected.value[1].start =
           get_sunday_before(Last(activities).start) - 7 * 1440

\* C6: each window selector returns an empty sequence, and never raises,
\* when the input sequence is empty or no activity matches the window.
C6_SelectorsNeverRaise ==
    op \in Selectors =>
        /\ selected.error = ""
        /\ activities = <<>> => selected.value = <<>>

\* The activities a section aggregates.
Subset ==
    CASE op = "create_total_activity_report" -> activities
      [] op = "create_previous_week_activity_report" ->
             get_last_week_activities(activities).value
      [] op = "create_weekly_activity_report" ->
             get_this_week_activities(activities).value
      [] op = "create_daily_activity_report" ->
             get_daily_activities(activities).value

Sections ==
    {"create_total_activity_report", "create_previous_week_activity_report",
     "create_weekly_activity_report", "create_daily_activity_report"}

\* C7: for every report section, if the activity subset selected for the
\* section is empty, the section renders as the empty string.
C7_EmptySubsetRendersEmpty ==
    (op \in Sections /\ Subset = <<>>) => report = Ok(EmptyString)

TypesOf(xs) == {xs[i].activity_type : i \in Indices(xs)}

\* Minutes of the activities of one type.
TypeMinutes(xs, t) ==
    SumSeq([i \in Indices(xs) |->
               IF xs[i].activity_type = t THEN Minutes(xs[i]) ELSE 0])

FirstOccurrence(xs, t) ==
    CHOOSE i \in Indices(xs) :
        /\ xs[i].activity_type = t
        /\ \A j \in 1..(i - 1) : xs[j].activity_type # t

\* C8: whenever aggregation succeeds, get_total_duration equals the sum of
\* the per-type totals accumulated by create_activity_duration_report, and
\* equals that function's total_duration.
C8_TotalIsSumOfTypeTotals ==
    (op = "aggregate" /\ aggregate.error = "") =>
        LET acc == accumulate(activities, 1, <<>>, 0)
            items == acc.value.activity_totals
        IN /\ acc.error = ""
           /\ aggregate.value.total_duration =
                  SumSeq([i \in Indices(items) |-> items[i].duration])
           /\ aggregate.value.total_duration = acc.value.total_duration

C8_Witness ==
    /\ op = "aggregate"
    /\ aggregate.error = ""
    /\ aggregate.value.total_duration = 165
    /\ aggregate.value.total_break_duration = 15
    /\ Cardinality(TypesOf(activities)) = 2

TypeRows == SelectSeq(report.value, LAMBDA l : l.kind = "type_row")

\* C9: the breakdown rows of create_activity_duration_report show each
\* activity type of the subset exactly once, by descending per-type total
\* minutes, types with equal totals in the order of their first occurrence.
C9_RowsSortedStable ==
    (op = "create_activity_duration_report" /\ report.error = ""
        /\ activities # <<>>) =>
    /\ {TypeRows[i].label : i \in Indices(TypeRows)} = TypesOf(activities)
    /\ Len(TypeRows) = Cardinality(TypesOf(activities))
    /\ \A i \in Indices(TypeRows) :
           TypeRows[i].nums[1] =
               format_hours(TypeMinutes(activities, TypeRows[i].label))
    /\ \A i \in 1..(Len(TypeRows) - 1) :
           LET a == TypeRows[i].label
               b == TypeRows[i + 1].label
           IN \/ TypeMinutes(activities, a) > TypeMinutes(activities, b)
              \/ /\ TypeMinutes(activities, a) = TypeMinutes(activities, b)
                 /\ FirstOccurrence(activities, a)
                        < FirstOccurrence(activities, b)

C9_Witness ==
    /\ op = "create_activity_duration_report"
    /\ report.error = ""
    /\ Len(TypeRows) = 2
    /\ TypeMinutes(activities, "work") = 60
    /\ TypeMinutes(activities, "rest") = 60
    /\ TypeRows[1].label = "rest"

ActivityRows == SelectSeq(report.value, LAMBDA l : l.kind = "activity_row")

Today ==
    SelectSeq(activities,
              LAMBDA x : x.start \div 1440 = Last(activities).start \div 1440)

FooterOf(kind) ==
    SelectSeq(report.value, LAMBDA l : l.kind = kind)

\* C10: in the daily report of a non-empty sequence of parsed activities,
\* the rows are exactly the activities that start on the last activity's
\* start date, in input order; the first row's break is 0 and row i's break
\* is start[i] - end[i-1] in minutes; the footer shows the sum of the row
\* durations and the sum of the row breaks.
C10_DailyRowsAndFooter ==
    (op = "create_daily_activity_report" /\ report.error = ""
        /\ activities # <<>>) =>
    /\ Len(ActivityRows) = Len(Today)
    /\ \A i \in Indices(Today) :
           LET row == ActivityRows[i]
               x == Today[i]
           IN /\ row.label = x.activity_type
              /\ row.nums[1] * 60 + row.nums[2] = x.start % 1440
              /\ row.nums[3] * 60 + row.nums[4] = x.end % 1440
              /\ row.nums[5] = x.end - x.start
              /\ row.nums[6] = IF i = 1 THEN 0
                               ELSE x.start - Today[i - 1].end
    /\ FooterOf("total_duration") =
           <<Line("total_duration", "",
                  <<format_hours(SumSeq([i \in Indices(ActivityRows) |->
                                            ActivityRows[i].nums[5]]))>>)>>
    /\ FooterOf("total_break_duration") =
           <<Line("total_break_duration", "",
                  <<format_hours(SumSeq([i \in Indices(ActivityRows) |->
                                            ActivityRows[i].nums[6]]))>>)>>

C10_Witness ==
    /\ op = "create_daily_activity_report"
    /\ report.error = ""
    /\ Len(activities) = 3
    /\ Len(ActivityRows) = 2
    /\ ActivityRows[1].nums = <<9, 0, 10, 0, 60, 0>>
    /\ ActivityRows[2].nums = <<10, 15, 11, 0, 45, 15>>
    /\ FooterOf("total_duration")[1].nums = <<175>>
    /\ FooterOf("total_break_duration")[1].nums = <<25>>

====
